---- MODULE Spec2Model ----
(***************************************************************************)
(* A model of the v2 serializers of apps/issuer/serializers_v2.py and of   *)
(* the data migration apps/mainsite/migrations/0018_auto_20190201_1745.py. *)
(*                                                                         *)
(* A Python dict (validated_data, attrs, context) is a TLA+ function whose *)
(* DOMAIN is the set of keys present.  A database table is a sequence of   *)
(* records; the primary key of a row is its index.                         *)
(***************************************************************************)
EXTENDS Integers, Sequences, FiniteSets, TLC

VARIABLES
    issuers,         \* the Issuer table
    badgeclasses,    \* the BadgeClass table
    badgeinstances,  \* the BadgeInstance table
    result,          \* the last serializer call: its arguments and its outcome
    pending,         \* the attrs a nested serializer is about to validate
    uuid_calls,      \* the number of calls of uuid.uuid4() so far
    stored,          \* the image names IssuerSerializerV2 assigned, oldest first
    rows,            \* the ApplicationInfo table
    pc,              \* where the migration is: "idle", "loop" (in run_data), "done"
    queue,           \* the rows the loop of run_data has yet to visit
    applied,         \* whether the migration is recorded as applied
    before,          \* the ApplicationInfo table when run_data was last called
    generated,       \* the domains generated since run_data was last called
    runs             \* the number of calls of run_data so far

storeVars == <<issuers, badgeclasses, badgeinstances>>
imageVars == <<uuid_calls, stored>>
migrationVars == <<rows, pc, queue, applied, before, generated, runs>>

vars == <<storeVars, result, pending, imageVars, migrationVars>>

\* what the calls of one API leave alone
notStore == <<pending, imageVars, migrationVars>>
notValidation == <<storeVars, imageVars, migrationVars>>
notImages == <<storeVars, pending, migrationVars>>
notMigration == <<storeVars, result, pending, imageVars>>

----------------------------------------------------------------------------
(* Bounds of the model *)

MaxIssuers == 3
MaxBadgeClasses == 2
MaxBadgeInstances == 1
MaxIdentifierLen == 3
MaxNameLen == 3
MaxUploads == 2
MaxRows == 3
MaxRuns == 2

----------------------------------------------------------------------------
(* Python values and dict operations *)

None == "None"

EmptyDict == [k \in {} |-> None]

\* d.pop(k) / del d[k]: the dict without key k
Pop(d, k) == [x \in DOMAIN d \ {k} |-> d[x]]

\* d[k] = v
SetItem(d, k, v) == [x \in DOMAIN d \cup {k} |-> IF x = k THEN v ELSE d[x]]

\* the dicts of S extended by key k with a value of V; a key that is not
\* required may also be left out
WithKey(S, k, V, required) ==
    { SetItem(d, k, v) : d \in S, v \in V } \cup (IF required THEN {} ELSE S)

\* the outcome of a call that returned ret
Returned(op, args, ret) ==
    [op |-> op, args |-> args, ok |-> TRUE, error |-> None, key |-> None, detail |-> None,
     ret |-> ret]

\* the outcome of a call that raised: error is the exception class, key the
\* field name of a serializers.ValidationError({key: ...}) or the KeyError key
Raised(op, args, error, key) ==
    [op |-> op, args |-> args, ok |-> FALSE, error |-> error, key |-> key, detail |-> None,
     ret |-> None]

\* the outcome of a call that raised serializers.ValidationError(message)
Rejected(op, args, message) ==
    [op |-> op, args |-> args, ok |-> FALSE, error |-> "ValidationError", key |-> None,
     detail |-> message, ret |-> None]

NoCall ==
    [op |-> None, args |-> EmptyDict, ok |-> TRUE, error |-> None, key |-> None, detail |-> None,
     ret |-> None]

\* no nested item is waiting to be validated
NoPending == [serializer |-> None, attrs |-> EmptyDict]

\* d.get(k): None when the key is absent
Get(d, k) == IF k \in DOMAIN d THEN d[k] ELSE None

----------------------------------------------------------------------------
(* entity.serializers.DetailSerializerV2: the base class of the serializers *)

\* create: model_cls.objects.create(**validated_data); a column that is not
\* given takes the default of the model; the new row is the last of the table
DetailSerializerV2_create(objects, model, validated_data) ==
    Append(objects,
           [f \in DOMAIN model |-> IF f \in DOMAIN validated_data THEN validated_data[f] ELSE model[f]])

\* update: setattr(instance, field_name, value) for every item, then save()
DetailSerializerV2_update(objects, instance, validated_data) ==
    [objects EXCEPT ![instance] =
        [f \in DOMAIN @ |-> IF f \in DOMAIN validated_data THEN validated_data[f] ELSE @[f]]]

----------------------------------------------------------------------------
(* The models (issuer.models): the columns this model follows, with defaults *)

IssuerModel == [name |-> "", staff_items |-> <<>>]
BadgeClassModel == [issuer |-> None, name |-> ""]
BadgeInstanceModel == [badgeclass |-> None, issuer |-> None, narrative |-> ""]

Names == {"name1", "name2"}
Narratives == {"narrative1"}
StaffLists == {<<>>, <<[cached_user |-> "user1", role |-> "owner"]>>,
               <<[cached_user |-> "user1", role |-> "owner"], [cached_user |-> "user2", role |-> "staff"]>>}

\* the rows an EntityRelatedFieldV2(queryset=...) resolves to: the stored ones
IssuerIds == DOMAIN issuers
BadgeClassIds == DOMAIN badgeclasses
BadgeInstanceIds == DOMAIN badgeinstances

----------------------------------------------------------------------------
(* IssuerSerializerV2 *)

\* staff is declared required=False: an omitted staff list leaves no
\* 'staff_items' key in validated_data
IssuerValidatedData ==
    WithKey(WithKey({EmptyDict}, "name", Names, TRUE), "staff_items", StaffLists, FALSE)

IssuerSerializerV2_create(validated_data) ==
    LET args == [validated_data |-> validated_data] IN
    IF "staff_items" \notin DOMAIN validated_data
    THEN \* validated_data.pop('staff_items') raises KeyError
         /\ result' = Raised("IssuerSerializerV2.create", args, "KeyError", "staff_items")
         /\ UNCHANGED <<issuers, badgeclasses, badgeinstances>>
    ELSE LET staff == validated_data["staff_items"]
             created == DetailSerializerV2_create(issuers, IssuerModel,
                                                  Pop(validated_data, "staff_items"))
             new_issuer == Len(created)
         IN /\ issuers' = [created EXCEPT ![new_issuer].staff_items = staff]
            /\ result' = Returned("IssuerSerializerV2.create", args, new_issuer)
            /\ UNCHANGED <<badgeclasses, badgeinstances>>

IssuerCreate ==
    /\ Len(issuers) < MaxIssuers
    /\ \E validated_data \in IssuerValidatedData : IssuerSerializerV2_create(validated_data)
    /\ UNCHANGED notStore

----------------------------------------------------------------------------
(* BadgeClassSerializerV2 *)

\* issuer is declared source='cached_issuer', required=False
BadgeClassValidatedData(name_required) ==
    WithKey(WithKey({EmptyDict}, "name", Names, name_required), "cached_issuer", IssuerIds, FALSE)

BadgeClassContexts == WithKey({EmptyDict}, "issuer", IssuerIds, FALSE)

\* a variant that renames the key as create does instead of dropping it
BadgeClassSerializerV2_update_renaming(instance, validated_data) ==
    LET args == [instance |-> instance, validated_data |-> validated_data]
        data == IF "cached_issuer" \in DOMAIN validated_data
                THEN SetItem(Pop(validated_data, "cached_issuer"), "issuer",
                             validated_data["cached_issuer"])
                ELSE validated_data
    IN /\ badgeclasses' = DetailSerializerV2_update(badgeclasses, instance, data)
       /\ result' = Returned("BadgeClassSerializerV2.update", args, instance)
       /\ UNCHANGED <<issuers, badgeinstances>>

BadgeClassSerializerV2_update(instance, validated_data) ==
    LET args == [instance |-> instance, validated_data |-> validated_data]
        data == IF "cached_issuer" \in DOMAIN validated_data
                THEN Pop(validated_data, "cached_issuer")  \* issuer is not updatable
                ELSE validated_data
    IN /\ badgeclasses' = DetailSerializerV2_update(badgeclasses, instance, data)
       /\ result' = Returned("BadgeClassSerializerV2.update", args, instance)
       /\ UNCHANGED <<issuers, badgeinstances>>

\* a variant that looks at the context before the payload
BadgeClassSerializerV2_create_context_first(validated_data, context) ==
    LET args == [validated_data |-> validated_data, context |-> context] IN
    IF "cached_issuer" \in DOMAIN validated_data \/ "issuer" \in DOMAIN context
    THEN LET data == IF "issuer" \in DOMAIN context
                     THEN SetItem(Pop(validated_data, "cached_issuer"), "issuer", context["issuer"])
                     ELSE SetItem(Pop(validated_data, "cached_issuer"), "issuer",
                                  validated_data["cached_issuer"])
         IN /\ badgeclasses' = DetailSerializerV2_create(badgeclasses, BadgeClassModel, data)
            /\ result' = Returned("BadgeClassSerializerV2.create", args, Len(badgeclasses'))
            /\ UNCHANGED <<issuers, badgeinstances>>
    ELSE /\ result' = Raised("BadgeClassSerializerV2.create", args, "ValidationError", "issuer")
         /\ UNCHANGED <<issuers, badgeclasses, badgeinstances>>

BadgeClassSerializerV2_create(validated_data, context) ==
    LET args == [validated_data |-> validated_data, context |-> context] IN
    IF "cached_issuer" \in DOMAIN validated_data \/ "issuer" \in DOMAIN context
    THEN LET data == IF "cached_issuer" \in DOMAIN validated_data
                     THEN \* included issuer in request
                          SetItem(Pop(validated_data, "cached_issuer"), "issuer",
                                  validated_data["cached_issuer"])
                     ELSE \* issuer was passed in context
                          SetItem(validated_data, "issuer", context["issuer"])
         IN /\ badgeclasses' = DetailSerializerV2_create(badgeclasses, BadgeClassModel, data)
            /\ result' = Returned("BadgeClassSerializerV2.create", args, Len(badgeclasses'))
            /\ UNCHANGED <<issuers, badgeinstances>>
    ELSE \* issuer is required on create
         /\ result' = Raised("BadgeClassSerializerV2.create", args, "ValidationError", "issuer")
         /\ UNCHANGED <<issuers, badgeclasses, badgeinstances>>

BadgeClassUpdate ==
    /\ \E instance \in BadgeClassIds, validated_data \in BadgeClassValidatedData(FALSE) :
        BadgeClassSerializerV2_update(instance, validated_data)
    /\ UNCHANGED notStore

BadgeClassCreate ==
    /\ Len(badgeclasses) < MaxBadgeClasses
    /\ \E validated_data \in BadgeClassValidatedData(TRUE), context \in BadgeClassContexts :
        BadgeClassSerializerV2_create(validated_data, context)
    /\ UNCHANGED notStore

----------------------------------------------------------------------------
(* BadgeInstanceSerializerV2 *)

\* badgeclass is declared source='cached_badgeclass', required=False
BadgeInstanceValidatedData ==
    WithKey(WithKey({EmptyDict}, "narrative", Narratives, FALSE),
            "cached_badgeclass", BadgeClassIds, FALSE)

BadgeInstanceContexts == WithKey({EmptyDict}, "badgeclass", BadgeClassIds, FALSE)

\* a variant that hands the payload to the base class, as the other serializers do
BadgeInstanceSerializerV2_update_applying(instance, validated_data) ==
    /\ badgeinstances' = DetailSerializerV2_update(badgeinstances, instance, validated_data)
    /\ result' = Returned("BadgeInstanceSerializerV2.update",
                          [instance |-> instance, validated_data |-> validated_data], instance)
    /\ UNCHANGED <<issuers, badgeclasses>>

BadgeInstanceSerializerV2_update(instance, validated_data) ==
    \* BadgeInstances are not updatable
    /\ result' = Returned("BadgeInstanceSerializerV2.update",
                          [instance |-> instance, validated_data |-> validated_data], instance)
    /\ UNCHANGED <<issuers, badgeclasses, badgeinstances>>

\* a variant that takes the issuer of the context's badgeclass whenever the
\* context has one, also when the payload names another badgeclass
BadgeInstanceSerializerV2_create_context_issuer(validated_data, context) ==
    LET args == [validated_data |-> validated_data, context |-> context] IN
    IF "cached_badgeclass" \in DOMAIN validated_data \/ "badgeclass" \in DOMAIN context
    THEN LET data == IF "cached_badgeclass" \in DOMAIN validated_data
                     THEN SetItem(Pop(validated_data, "cached_badgeclass"), "badgeclass",
                                  validated_data["cached_badgeclass"])
                     ELSE SetItem(validated_data, "badgeclass", context["badgeclass"])
             from == IF "badgeclass" \in DOMAIN context THEN context["badgeclass"]
                     ELSE data["badgeclass"]
             with_issuer == SetItem(data, "issuer", badgeclasses[from].issuer)
         IN /\ badgeinstances' =
                  DetailSerializerV2_create(badgeinstances, BadgeInstanceModel, with_issuer)
            /\ result' = Returned("BadgeInstanceSerializerV2.create", args, Len(badgeinstances'))
            /\ UNCHANGED <<issuers, badgeclasses>>
    ELSE /\ result' = Raised("BadgeInstanceSerializerV2.create", args, "ValidationError", "badgeclass")
         /\ UNCHANGED <<issuers, badgeclasses, badgeinstances>>

BadgeInstanceSerializerV2_create(validated_data, context) ==
    LET args == [validated_data |-> validated_data, context |-> context] IN
    IF "cached_badgeclass" \in DOMAIN validated_data \/ "badgeclass" \in DOMAIN context
    THEN LET data == IF "cached_badgeclass" \in DOMAIN validated_data
                     THEN \* included badgeclass in request
                          SetItem(Pop(validated_data, "cached_badgeclass"), "badgeclass",
                                  validated_data["cached_badgeclass"])
                     ELSE \* badgeclass was passed in context
                          SetItem(validated_data, "badgeclass", context["badgeclass"])
             with_issuer == SetItem(data, "issuer", badgeclasses[data["badgeclass"]].issuer)
         IN /\ badgeinstances' =
                  DetailSerializerV2_create(badgeinstances, BadgeInstanceModel, with_issuer)
            /\ result' = Returned("BadgeInstanceSerializerV2.create", args, Len(badgeinstances'))
            /\ UNCHANGED <<issuers, badgeclasses>>
    ELSE \* badgeclass is required on create
         /\ result' = Raised("BadgeInstanceSerializerV2.create", args, "ValidationError", "badgeclass")
         /\ UNCHANGED <<issuers, badgeclasses, badgeinstances>>

BadgeInstanceUpdate ==
    /\ \E instance \in BadgeInstanceIds, validated_data \in BadgeInstanceValidatedData :
        BadgeInstanceSerializerV2_update(instance, validated_data)
    /\ UNCHANGED notStore

BadgeInstanceCreate ==
    /\ Len(badgeinstances) < MaxBadgeInstances
    /\ \E validated_data \in BadgeInstanceValidatedData, context \in BadgeInstanceContexts :
        BadgeInstanceSerializerV2_create(validated_data, context)
    /\ UNCHANGED notStore

----------------------------------------------------------------------------
(* The issuer API: Issuers are created through IssuerSerializerV2 *)

InitIssuer ==
    /\ issuers = <<>>
    /\ badgeclasses = <<>>
    /\ badgeinstances = <<>>
    /\ result = NoCall
    /\ pending = NoPending
    /\ uuid_calls = 0
    /\ stored = <<>>
    /\ rows = <<>>
    /\ pc = "idle"
    /\ queue = <<>>
    /\ applied = FALSE
    /\ before = <<>>
    /\ generated = <<>>
    /\ runs = 0

NextIssuer == IssuerCreate

SpecIssuer == InitIssuer /\ [][NextIssuer]_vars

(* The badge API: BadgeClasses and BadgeInstances of the stored Issuers *)

StoredIssuers ==
    <<[name |-> "name1", staff_items |-> <<>>], [name |-> "name2", staff_items |-> <<>>]>>

Init ==
    /\ issuers = StoredIssuers
    /\ badgeclasses = <<>>
    /\ badgeinstances = <<>>
    /\ result = NoCall
    /\ pending = NoPending
    /\ uuid_calls = 0
    /\ stored = <<>>
    /\ rows = <<>>
    /\ pc = "idle"
    /\ queue = <<>>
    /\ applied = FALSE
    /\ before = <<>>
    /\ generated = <<>>
    /\ runs = 0

Next ==
    \/ BadgeClassCreate
    \/ BadgeClassUpdate
    \/ BadgeInstanceCreate
    \/ BadgeInstanceUpdate

Spec == Init /\ [][Next]_vars

----------------------------------------------------------------------------
(* Properties of the badge API *)

\* C1: BadgeInstanceSerializerV2.update is a no-op: whatever the payload, it
\* returns the instance it was given and no stored row of any table changes.
C1_BadgeInstanceUpdateIsNoOp ==
    [][result'.op = "BadgeInstanceSerializerV2.update" =>
          /\ result'.ok
          /\ result'.ret = result'.args.instance
          /\ badgeinstances' = badgeinstances
          /\ badgeclasses' = badgeclasses
          /\ issuers' = issuers]_vars

\* an update whose payload carries a narrative and a badgeclass that both
\* differ from the stored ones has run
C1_Witness ==
    /\ result.op = "BadgeInstanceSerializerV2.update"
    /\ LET vd == result.args.validated_data
           row == badgeinstances[result.args.instance]
       IN /\ DOMAIN vd = {"narrative", "cached_badgeclass"}
          /\ vd["narrative"] # row.narrative
          /\ vd["cached_badgeclass"] # row.badgeclass

\* C2: BadgeClassSerializerV2.update never changes the issuer of the
\* BadgeClass, also when the payload carries another issuer, while a submitted
\* name reaches the row; the updated instance is returned.
C2_BadgeClassUpdateKeepsIssuer ==
    [][result'.op = "BadgeClassSerializerV2.update" =>
          LET i == result'.args.instance
              vd == result'.args.validated_data
          IN /\ result'.ok /\ result'.ret = i
             /\ badgeclasses'[i].issuer = badgeclasses[i].issuer
             /\ badgeclasses'[i].name = IF "name" \in DOMAIN vd THEN vd["name"]
                                        ELSE badgeclasses[i].name
             /\ \A j \in DOMAIN badgeclasses \ {i} : badgeclasses'[j] = badgeclasses[j]
             /\ DOMAIN badgeclasses' = DOMAIN badgeclasses]_vars

\* an update whose payload carried another issuer and a name has run, and the
\* name is the stored one
C2_Witness ==
    /\ result.op = "BadgeClassSerializerV2.update"
    /\ LET vd == result.args.validated_data
           row == badgeclasses[result.args.instance]
       IN /\ DOMAIN vd = {"name", "cached_issuer"}
          /\ vd["cached_issuer"] # row.issuer
          /\ vd["name"] = row.name

\* C3: BadgeClassSerializerV2.create records the payload's issuer when the
\* payload has one, otherwise the context's issuer when the context has one,
\* and creates exactly one BadgeClass; with neither it raises a validation
\* error keyed "issuer" and creates nothing.
C3_BadgeClassCreateResolvesIssuer ==
    [][result'.op = "BadgeClassSerializerV2.create" =>
          LET vd == result'.args.validated_data
              ctx == result'.args.context
              created == /\ result'.ok
                         /\ Len(badgeclasses') = Len(badgeclasses) + 1
                         /\ result'.ret = Len(badgeclasses')
                         /\ SubSeq(badgeclasses', 1, Len(badgeclasses)) = badgeclasses
          IN IF "cached_issuer" \in DOMAIN vd
             THEN created /\ badgeclasses'[result'.ret].issuer = vd["cached_issuer"]
             ELSE IF "issuer" \in DOMAIN ctx
             THEN created /\ badgeclasses'[result'.ret].issuer = ctx["issuer"]
             ELSE /\ ~result'.ok
                  /\ result'.error = "ValidationError"
                  /\ result'.key = "issuer"
                  /\ badgeclasses' = badgeclasses]_vars

\* a create whose payload and context named different issuers has succeeded
C3_Witness ==
    /\ result.op = "BadgeClassSerializerV2.create"
    /\ result.ok
    /\ "cached_issuer" \in DOMAIN result.args.validated_data
    /\ "issuer" \in DOMAIN result.args.context
    /\ result.args.validated_data["cached_issuer"] # result.args.context["issuer"]
    /\ badgeclasses[result.ret].issuer = result.args.validated_data["cached_issuer"]

\* C4: BadgeInstanceSerializerV2.create records the payload's badgeclass when
\* the payload has one, otherwise the context's when the context has one, and
\* the new BadgeInstance's issuer is the issuer of that badgeclass; with
\* neither it raises a validation error keyed "badgeclass" and creates nothing.
C4_BadgeInstanceCreateResolvesBadgeClass ==
    [][result'.op = "BadgeInstanceSerializerV2.create" =>
          LET vd == result'.args.validated_data
              ctx == result'.args.context
              new == badgeinstances'[result'.ret]
              created(bc) == /\ result'.ok
                             /\ Len(badgeinstances') = Len(badgeinstances) + 1
                             /\ result'.ret = Len(badgeinstances')
                             /\ SubSeq(badgeinstances', 1, Len(badgeinstances)) = badgeinstances
                             /\ new.badgeclass = bc
                             /\ new.issuer = badgeclasses[bc].issuer
          IN IF "cached_badgeclass" \in DOMAIN vd THEN created(vd["cached_badgeclass"])
             ELSE IF "badgeclass" \in DOMAIN ctx THEN created(ctx["badgeclass"])
             ELSE /\ ~result'.ok
                  /\ result'.error = "ValidationError"
                  /\ result'.key = "badgeclass"
                  /\ badgeinstances' = badgeinstances]_vars

\* a create whose payload and context named badgeclasses of different issuers
\* has succeeded
C4_Witness ==
    /\ result.op = "BadgeInstanceSerializerV2.create"
    /\ result.ok
    /\ "cached_badgeclass" \in DOMAIN result.args.validated_data
    /\ "badgeclass" \in DOMAIN result.args.context
    /\ badgeclasses[result.args.validated_data["cached_badgeclass"]].issuer
         # badgeclasses[result.args.context["badgeclass"]].issuer
    /\ badgeinstances[result.ret].badgeclass = result.args.validated_data["cached_badgeclass"]

IssuerOfBadgeClassInherited ==
    \A bi \in DOMAIN badgeinstances :
        badgeinstances[bi].issuer = badgeclasses[badgeinstances[bi].badgeclass].issuer

BadgeClassIssuerStable ==
    \A bc \in DOMAIN badgeclasses :
        bc \in DOMAIN badgeclasses' /\ badgeclasses'[bc].issuer = badgeclasses[bc].issuer

\* C10: after any sequence of BadgeClass and BadgeInstance creates and
\* updates, every BadgeInstance's issuer is the current issuer of its
\* badgeclass, and no step changes the issuer a BadgeClass was created with.
C10_IssuerConsistency == [](IssuerOfBadgeClassInherited) /\ [][BadgeClassIssuerStable]_vars

\* a BadgeInstance exists and its badgeclass has just been updated with a
\* payload carrying another issuer
C10_Witness ==
    /\ result.op = "BadgeClassSerializerV2.update"
    /\ "cached_issuer" \in DOMAIN result.args.validated_data
    /\ result.args.validated_data["cached_issuer"] # badgeclasses[result.args.instance].issuer
    /\ \E bi \in DOMAIN badgeinstances : badgeinstances[bi].badgeclass = result.args.instance

----------------------------------------------------------------------------
(* Properties of the issuer API *)

\* C5: every failure of a serializer operation is a validation error; in
\* particular IssuerSerializerV2.create with validated data that omits the
\* optional staff list does not fail with another kind of error.
C5_FailuresAreValidationErrors == ~result.ok => result.error = "ValidationError"

----------------------------------------------------------------------------
(* Recipient identifiers and the format validators                          *)
(*                                                                         *)
(* An identifier is a string; it is modelled as the sequence of the        *)
(* lexemes it is the concatenation of, so <<"user", "@", "example.com">>   *)
(* is "user@example.com".  A validator returns the message of the          *)
(* ValidationError it raises, or None when it accepts the value.           *)

Tokens == {"user", "@", "example.com", "http://", "+", "1555"}

Identifiers == UNION { [1..n -> Tokens] : n \in 1..MaxIdentifierLen }

\* s.rfind(t): the last index of t in s, 0 when there is none
LastIndex(s, t) ==
    IF \E i \in DOMAIN s : s[i] = t
    THEN CHOOSE i \in DOMAIN s : s[i] = t /\ \A j \in DOMAIN s : s[j] = t => j <= i
    ELSE 0

Tail2(s, i) == SubSeq(s, i + 1, Len(s))

\* the lexemes that are runs of letters, digits and dots between them
LabelTokens == {"user", "1555", "example.com"}

\* django EmailValidator.user_regex: a dot-atom (no "@", no ":")
EmailUserOK(u) == Len(u) > 0 /\ \A i \in DOMAIN u : u[i] \in LabelTokens \cup {"+"}

\* django EmailValidator.domain_regex: dotted labels, the last of two or more
\* letters or digits
EmailDomainOK(d) ==
    /\ Len(d) > 0
    /\ \A i \in DOMAIN d : d[i] \in LabelTokens
    /\ \E i \in DOMAIN d : d[i] = "example.com"

\* django.core.validators.EmailValidator: value.rsplit('@', 1), then the user
\* part and the domain part are matched
EmailValidator(value) ==
    LET at == LastIndex(value, "@")
    IN IF at > 0 /\ EmailUserOK(SubSeq(value, 1, at - 1)) /\ EmailDomainOK(Tail2(value, at))
       THEN None
       ELSE "Enter a valid email address."

\* the host of django URLValidator.regex: dotted labels, the last (the top
\* level domain) of two or more letters
UrlHostOK(h) ==
    /\ Len(h) > 0
    /\ \A i \in DOMAIN h : h[i] \in LabelTokens
    /\ LastIndex(h, "example.com") > 0
    /\ \A i \in DOMAIN h : i > LastIndex(h, "example.com") => h[i] = "user"

\* django.core.validators.URLValidator: the scheme before the first "://" is
\* one of http, https, ftp, ftps; then an optional user:pass@ and a host
URLValidator(value) ==
    LET rest == Tail2(value, 1)
        at == LastIndex(rest, "@")
    IN IF /\ value[1] = "http://"
          /\ \/ UrlHostOK(rest)
             \/ at > 1 /\ UrlHostOK(Tail2(rest, at))
       THEN None
       ELSE "Enter a valid URL."

\* mainsite.validators.TelephoneValidator: E.164, an optional "+" and two to
\* fifteen digits, the first not 0 (the lexeme "1555" is four digits)
TelephoneValidator(value) ==
    LET digits == IF value[1] = "+" THEN Tail2(value, 1) ELSE value
    IN IF /\ Len(digits) > 0
          /\ \A i \in DOMAIN digits : digits[i] = "1555"
          /\ 4 * Len(digits) <= 15
       THEN None
       ELSE "Telephone number does not conform to E.164"

----------------------------------------------------------------------------
(* BadgeRecipientSerializerV2 *)

RECIPIENT_TYPE_EMAIL == "email"
RECIPIENT_TYPE_URL == "url"
RECIPIENT_TYPE_ID == "id"
RECIPIENT_TYPE_TELEPHONE == "telephone"

RECIPIENT_TYPE_CHOICES ==
    {RECIPIENT_TYPE_EMAIL, RECIPIENT_TYPE_URL, RECIPIENT_TYPE_ID, RECIPIENT_TYPE_TELEPHONE}

\* VALIDATORS swapped for a table that gives the "id" type the email format
VALIDATORS_id_as_email ==
    (RECIPIENT_TYPE_EMAIL :> "EmailValidator") @@ (RECIPIENT_TYPE_URL :> "URLValidator")
      @@ (RECIPIENT_TYPE_ID :> "EmailValidator")
      @@ (RECIPIENT_TYPE_TELEPHONE :> "TelephoneValidator")

VALIDATORS ==
    (RECIPIENT_TYPE_EMAIL :> "EmailValidator") @@ (RECIPIENT_TYPE_URL :> "URLValidator")
      @@ (RECIPIENT_TYPE_ID :> "URLValidator")
      @@ (RECIPIENT_TYPE_TELEPHONE :> "TelephoneValidator")

\* self.VALIDATORS[recipient_type](recipient_identifier)
CallValidator(validator, value) ==
    CASE validator = "EmailValidator" -> EmailValidator(value)
      [] validator = "URLValidator" -> URLValidator(value)
      [] validator = "TelephoneValidator" -> TelephoneValidator(value)

\* identity is a required CharField; type is a ChoiceField with a default,
\* which a partial update does not apply
RecipientAttrs ==
    WithKey(WithKey({EmptyDict}, "recipient_identifier", Identifiers, TRUE),
            "recipient_type", RECIPIENT_TYPE_CHOICES, FALSE)

BadgeRecipientSerializerV2_validate(attrs) ==
    LET recipient_type == Get(attrs, "recipient_type")
        recipient_identifier == Get(attrs, "recipient_identifier")
        message == IF recipient_type \in DOMAIN VALIDATORS
                   THEN CallValidator(VALIDATORS[recipient_type], recipient_identifier)
                   ELSE None
    IN IF message # None
       THEN Rejected("BadgeRecipientSerializerV2.validate", [attrs |-> attrs], message)
       ELSE Returned("BadgeRecipientSerializerV2.validate", [attrs |-> attrs], attrs)

RecipientValidate ==
    /\ pending.serializer = "BadgeRecipientSerializerV2"
    /\ result' = BadgeRecipientSerializerV2_validate(pending.attrs)
    /\ pending' = NoPending
    /\ UNCHANGED notValidation

----------------------------------------------------------------------------
(* EvidenceItemSerializerV2 *)

EvidenceUrls == {"", "http://example.com/evidence"}
EvidenceNarratives == {"", "narrative1"}

EvidenceAttrs ==
    WithKey(WithKey({EmptyDict}, "evidence_url", EvidenceUrls, FALSE),
            "narrative", EvidenceNarratives, FALSE)

\* the truth value of a Python string or None
Truthy(v) == v # None /\ v # ""

\* a variant that rejects as soon as one of the two is missing
EvidenceItemSerializerV2_validate_both(attrs) ==
    IF ~(Truthy(Get(attrs, "evidence_url")) /\ Truthy(Get(attrs, "narrative")))
    THEN Rejected("EvidenceItemSerializerV2.validate", [attrs |-> attrs],
                  "Either url or narrative is required")
    ELSE Returned("EvidenceItemSerializerV2.validate", [attrs |-> attrs], attrs)

EvidenceItemSerializerV2_validate(attrs) ==
    IF ~(Truthy(Get(attrs, "evidence_url")) \/ Truthy(Get(attrs, "narrative")))
    THEN Rejected("EvidenceItemSerializerV2.validate", [attrs |-> attrs],
                  "Either url or narrative is required")
    ELSE Returned("EvidenceItemSerializerV2.validate", [attrs |-> attrs], attrs)

EvidenceValidate ==
    /\ pending.serializer = "EvidenceItemSerializerV2"
    /\ result' = EvidenceItemSerializerV2_validate(pending.attrs)
    /\ pending' = NoPending
    /\ UNCHANGED notValidation

----------------------------------------------------------------------------
(* Validation of the nested items of one request: each item is validated   *)
(* once, by its serializer                                                 *)

InitValidation ==
    /\ issuers = <<>>
    /\ badgeclasses = <<>>
    /\ badgeinstances = <<>>
    /\ result = NoCall
    /\ pending \in
         { [serializer |-> "BadgeRecipientSerializerV2", attrs |-> a] : a \in RecipientAttrs }
           \cup { [serializer |-> "EvidenceItemSerializerV2", attrs |-> a] : a \in EvidenceAttrs }
    /\ uuid_calls = 0
    /\ stored = <<>>
    /\ rows = <<>>
    /\ pc = "idle"
    /\ queue = <<>>
    /\ applied = FALSE
    /\ before = <<>>
    /\ generated = <<>>
    /\ runs = 0

NextValidation ==
    \/ RecipientValidate
    \/ EvidenceValidate

SpecValidation == InitValidation /\ [][NextValidation]_vars

\* C6: for every recipient type of {email, url, id, telephone}, an identifier
\* that fails the format of its type (email: the email format; url and id: the
\* URL format; telephone: the telephone format) is rejected with a validation
\* error carrying that validator's message, and one that passes is accepted
\* with the attrs returned unchanged.
C6_RecipientValidatedByType ==
    result.op = "BadgeRecipientSerializerV2.validate" =>
        LET attrs == result.args.attrs
            type == Get(attrs, "recipient_type")
            identity == attrs["recipient_identifier"]
            message == CASE type = "email" -> EmailValidator(identity)
                         [] type \in {"url", "id"} -> URLValidator(identity)
                         [] type = "telephone" -> TelephoneValidator(identity)
                         [] OTHER -> None
        IN IF message # None
           THEN ~result.ok /\ result.error = "ValidationError" /\ result.detail = message
           ELSE result.ok /\ result.ret = attrs

\* an "id" recipient whose identifier is a well-formed email address, and so
\* no URL, has been rejected with the URL validator's message
C6_Witness ==
    /\ result.op = "BadgeRecipientSerializerV2.validate"
    /\ Get(result.args.attrs, "recipient_type") = "id"
    /\ EmailValidator(result.args.attrs["recipient_identifier"]) = None
    /\ ~result.ok
    /\ result.detail = "Enter a valid URL."

\* C7: an evidence item is rejected, with "Either url or narrative is
\* required", exactly when its url and its narrative are both absent or
\* empty; otherwise it is accepted and the attrs are returned unchanged.
C7_EvidenceNeedsUrlOrNarrative ==
    result.op = "EvidenceItemSerializerV2.validate" =>
        LET attrs == result.args.attrs
            empty(k) == k \notin DOMAIN attrs \/ attrs[k] = ""
        IN IF empty("evidence_url") /\ empty("narrative")
           THEN /\ ~result.ok
                /\ result.error = "ValidationError"
                /\ result.detail = "Either url or narrative is required"
           ELSE result.ok /\ result.ret = attrs

\* an evidence item with a narrative and an empty url has been accepted
C7_Witness ==
    /\ result.op = "EvidenceItemSerializerV2.validate"
    /\ result.ok
    /\ Get(result.args.attrs, "evidence_url") = ""
    /\ Truthy(Get(result.args.attrs, "narrative"))

----------------------------------------------------------------------------
(* Uploaded images                                                         *)
(*                                                                         *)
(* A file name is the sequence of its characters; the name a serializer    *)
(* assigns is <<"issuer_logo_", str(uuid4())>> followed by the characters  *)
(* of the extension.                                                       *)

NameChars == {"a", ".", "/"}

FileNames == UNION { [1..n -> NameChars] : n \in 1..MaxNameLen }

\* the value of an image field: an uploaded file, or None (allow_null)
File(name) == [file |-> TRUE, name |-> name]
NoImage == [file |-> FALSE, name |-> <<>>]

Images == { File(n) : n \in FileNames } \cup {NoImage}

\* str(uuid.uuid4()) at the n-th call: a value no earlier call returned
Uuid4(n) == ToString(n)

\* os.path.splitext (genericpath._splitext): the extension starts at the last
\* dot of the last path component, unless only dots precede it there
Splitext(p) ==
    LET sepIndex == LastIndex(p, "/")
        dotIndex == LastIndex(p, ".")
    IN IF /\ dotIndex > sepIndex
          /\ \E filenameIndex \in (sepIndex + 1)..(dotIndex - 1) : p[filenameIndex] # "."
       THEN <<SubSeq(p, 1, dotIndex - 1), SubSeq(p, dotIndex, Len(p))>>
       ELSE <<p, <<>> >>

\* a variant that forgets the extension
IssuerSerializerV2_validate_image_no_ext(image) ==
    IF image.file
    THEN /\ uuid_calls' = uuid_calls + 1
         /\ LET renamed == File(<<"issuer_logo_", Uuid4(uuid_calls')>>)
            IN /\ stored' = Append(stored, renamed.name)
               /\ result' = Returned("IssuerSerializerV2.validate_image", [image |-> image], renamed)
    ELSE /\ result' = Returned("IssuerSerializerV2.validate_image", [image |-> image], image)
         /\ UNCHANGED <<uuid_calls, stored>>

IssuerSerializerV2_validate_image(image) ==
    IF image.file
    THEN /\ uuid_calls' = uuid_calls + 1
         /\ LET img_ext == Splitext(image.name)[2]
                renamed == File(<<"issuer_logo_", Uuid4(uuid_calls')>> \o img_ext)
            IN /\ stored' = Append(stored, renamed.name)
               /\ result' = Returned("IssuerSerializerV2.validate_image", [image |-> image], renamed)
    ELSE /\ result' = Returned("IssuerSerializerV2.validate_image", [image |-> image], image)
         /\ UNCHANGED <<uuid_calls, stored>>

\* BadgeClassSerializerV2 declares image = ValidImageField(required=False) and
\* no validate_image: the validated value is the value of the field
BadgeClassSerializerV2_image(image) ==
    /\ result' = Returned("BadgeClassSerializerV2.image", [image |-> image], image)
    /\ UNCHANGED <<uuid_calls, stored>>

IssuerValidateImage ==
    /\ uuid_calls < MaxUploads
    /\ \E image \in Images : IssuerSerializerV2_validate_image(image)
    /\ UNCHANGED notImages

BadgeClassValidateImage ==
    /\ \E image \in Images : BadgeClassSerializerV2_image(image)
    /\ UNCHANGED notImages

InitImages ==
    /\ issuers = <<>>
    /\ badgeclasses = <<>>
    /\ badgeinstances = <<>>
    /\ result = NoCall
    /\ pending = NoPending
    /\ uuid_calls = 0
    /\ stored = <<>>
    /\ rows = <<>>
    /\ pc = "idle"
    /\ queue = <<>>
    /\ applied = FALSE
    /\ before = <<>>
    /\ generated = <<>>
    /\ runs = 0

NextImages ==
    \/ IssuerValidateImage
    \/ BadgeClassValidateImage

SpecImages == InitImages /\ [][NextImages]_vars

\* the extension of a file name: from its last dot on, when that dot lies in
\* the last path component after a character that is not a dot
Extension(n) ==
    LET dots == { i \in DOMAIN n :
                    /\ n[i] = "."
                    /\ \A j \in DOMAIN n : j > i => n[j] \notin {".", "/"}
                    /\ \E j \in 1..(i - 1) :
                          /\ n[j] # "."
                          /\ \A k \in j..i : n[k] # "/" }
    IN IF dots = {} THEN <<>> ELSE SubSeq(n, CHOOSE i \in dots : TRUE, Len(n))

\* an image a serializer accepted is named 'issuer_logo_', a UUID, and the
\* extension of the uploaded name, and nothing else
RenamedFrom(original, renamed) ==
    /\ renamed.file
    /\ Len(renamed.name) = 2 + Len(Extension(original.name))
    /\ renamed.name[1] = "issuer_logo_"
    /\ renamed.name[2] = Uuid4(uuid_calls)
    /\ SubSeq(renamed.name, 3, Len(renamed.name)) = Extension(original.name)

NoTwoAlike(names) ==
    \A i, j \in DOMAIN names : names[i] = names[j] => i = j

\* C8 as stated: every serializer of the module that accepts an uploaded
\* image renames it to 'issuer_logo_' + UUID + original extension, no two
\* uploads receive the same name, and None passes through.
C8_EveryImageRenamed ==
    result.op \in {"IssuerSerializerV2.validate_image", "BadgeClassSerializerV2.image"} =>
        IF result.args.image.file
        THEN RenamedFrom(result.args.image, result.ret) /\ NoTwoAlike(stored)
        ELSE result.ret = NoImage

\* C8 amended: IssuerSerializerV2.validate_image renames an uploaded image to
\* 'issuer_logo_' + a fresh UUID + the original extension, the base name is
\* discarded, no two uploads receive the same name, and None passes through
\* unchanged; BadgeClassSerializerV2 has the image field but no validate_image
\* and returns the image under the name it came with.
C8_IssuerImageRenamed ==
    /\ result.op = "IssuerSerializerV2.validate_image" =>
          IF result.args.image.file
          THEN /\ RenamedFrom(result.args.image, result.ret)
               /\ stored[Len(stored)] = result.ret.name
          ELSE result.ret = NoImage
    /\ result.op = "BadgeClassSerializerV2.image" => result.ret = result.args.image
    /\ NoTwoAlike(stored)
    /\ Len(stored) = uuid_calls

\* two uploads whose names share base name and extension have both been
\* renamed by IssuerSerializerV2, the last one named with an ".a" extension
C8_Witness ==
    /\ result.op = "IssuerSerializerV2.validate_image"
    /\ result.args.image.file
    /\ Len(stored) >= 2
    /\ Extension(result.args.image.name) = <<".", "a">>
    /\ SubSeq(stored[1], 3, Len(stored[1])) = SubSeq(stored[2], 3, Len(stored[2]))

----------------------------------------------------------------------------
(* The data migration 0018_auto_20190201_1745                              *)

AppNames == {"app1", "app2"}

\* mainsite.utils.generate_random_fake_badge_connect_domain(): a random
\* placeholder domain; nothing makes two calls differ
Domains == {"domain1.example", "domain2.example"}

\* the ApplicationInfo tables the migration can meet: migration 0017 has
\* added manifest_domain, empty in every row
ApplicationInfoTables ==
    UNION { [1..n -> [manifest_domain : {""}, name : AppNames]] : n \in 0..MaxRows }

\* ApplicationInfo.objects.all(), evaluated when the loop starts: one object
\* per row, holding the row's primary key and a copy of its columns
ObjectsAll(table) ==
    [pk \in DOMAIN table |->
        [pk |-> pk, manifest_domain |-> table[pk].manifest_domain, name |-> table[pk].name]]

\* row.save(): every column of the row with this primary key is written
Save(table, row) ==
    [table EXCEPT ![row.pk] = [manifest_domain |-> row.manifest_domain, name |-> row.name]]

\* the migration executor applies the operations of a migration that is not
\* recorded as applied: RunPython calls run_data
RunDataCall ==
    /\ pc = "idle"
    /\ ~applied
    /\ runs < MaxRuns
    /\ pc' = "loop"
    /\ queue' = ObjectsAll(rows)
    /\ before' = rows
    /\ generated' = <<>>
    /\ runs' = runs + 1
    /\ UNCHANGED <<rows, applied>>
    /\ UNCHANGED notMigration

\* a variant of the loop body that never saves the row
RunDataRow_unsaved(domain) ==
    /\ pc = "loop"
    /\ queue # <<>>
    /\ queue' = Tail(queue)
    /\ generated' = Append(generated, domain)
    /\ UNCHANGED <<rows, pc, applied, before, runs>>

\* one turn of the loop of run_data
RunDataRow(domain) ==
    /\ pc = "loop"
    /\ queue # <<>>
    /\ LET row == [Head(queue) EXCEPT !.manifest_domain = domain]
       IN rows' = Save(rows, row)
    /\ queue' = Tail(queue)
    /\ generated' = Append(generated, domain)
    /\ UNCHANGED <<pc, applied, before, runs>>

RunDataLoop ==
    /\ \E domain \in Domains : RunDataRow(domain)
    /\ UNCHANGED notMigration

\* the loop is exhausted: run_data returns and the migration is recorded
RunDataReturn ==
    /\ pc = "loop"
    /\ queue = <<>>
    /\ pc' = "done"
    /\ applied' = TRUE
    /\ UNCHANGED <<rows, queue, before, generated, runs>>
    /\ UNCHANGED notMigration

\* reverse_code=migrations.RunPython.noop: unapplying touches no row
ReverseNoop ==
    /\ pc = "done"
    /\ applied
    /\ pc' = "idle"
    /\ applied' = FALSE
    /\ UNCHANGED <<rows, queue, before, generated, runs>>
    /\ UNCHANGED notMigration

InitMigration ==
    /\ issuers = <<>>
    /\ badgeclasses = <<>>
    /\ badgeinstances = <<>>
    /\ result = NoCall
    /\ pending = NoPending
    /\ uuid_calls = 0
    /\ stored = <<>>
    /\ rows \in ApplicationInfoTables
    /\ pc = "idle"
    /\ queue = <<>>
    /\ applied = FALSE
    /\ before = <<>>
    /\ generated = <<>>
    /\ runs = 0

NextMigration ==
    \/ RunDataCall
    \/ RunDataLoop
    \/ RunDataReturn
    \/ ReverseNoop

\* run_data is straight-line code around a loop over a finite list: once
\* called it keeps running until it returns
SpecMigration ==
    InitMigration /\ [][NextMigration]_vars /\ WF_vars(RunDataLoop) /\ WF_vars(RunDataReturn)

\* nothing is added, nothing is removed, and only manifest_domain changes
OnlyManifestDomainWritten ==
    /\ DOMAIN rows' = DOMAIN rows
    /\ \A pk \in DOMAIN rows : rows'[pk].name = rows[pk].name

\* when run_data has returned, every row that existed when it was called has
\* been given the domain generated for it, and has been saved
EveryRowVisited ==
    pc = "done" =>
        /\ queue = <<>>
        /\ DOMAIN rows = DOMAIN before
        /\ DOMAIN generated = DOMAIN before
        /\ \A pk \in DOMAIN before :
              /\ rows[pk].manifest_domain = generated[pk]
              /\ rows[pk].name = before[pk].name

\* C9: run_data terminates having visited every ApplicationInfo row that
\* existed when it started, each given a newly generated manifest_domain and
\* saved; no step of it, of a re-run or of the no-op reverse adds or removes
\* a row or changes another field.
C9_BackfillVisitsEveryRow ==
    /\ [](EveryRowVisited)
    /\ [][OnlyManifestDomainWritten]_vars
    /\ (pc = "loop" ~> pc = "done")

\* a second run over three rows has returned, and has given a row another
\* domain than the first run did
C9_Witness ==
    /\ pc = "done"
    /\ runs = 2
    /\ Len(before) = 3
    /\ \E pk \in DOMAIN before : before[pk].manifest_domain \notin {"", rows[pk].manifest_domain}

====
